--------------------------- MODULE Spec2Model ---------------------------
(***************************************************************************)
(* A model of src/src/App.js: a live HTML/CSS/JavaScript playground built  *)
(* as one React component.  Three text buffers (htmlCode, cssCode, jsCode) *)
(* feed a composed document (srcDoc) that a sandboxed iframe renders; a    *)
(* share link carries the buffers as base64 query parameters; a template   *)
(* registry replaces the three buffers at once.                            *)
(*                                                                         *)
(* Text is a sequence of UTF-16 code units, as a JavaScript string is.     *)
(* In the comments, "xyz" stands for the sequence of the code units of xyz.*)
(***************************************************************************)
EXTENDS Integers, Sequences, FiniteSets

(***************************************************************************)
(* Results of calls that may throw, and sequence helpers.                  *)
(***************************************************************************)
Return(v) == [threw |-> FALSE, val |-> v]

Throw == [threw |-> TRUE, val |-> << >>]

RECURSIVE Concat(_, _, _)
\* ss[lo] \o ... \o ss[hi], by halving (the depth stays logarithmic).
Concat(ss, lo, hi) ==
    IF lo > hi THEN << >>
    ELSE IF lo = hi THEN ss[lo]
    ELSE LET mid == (lo + hi) \div 2
         IN  Concat(ss, lo, mid) \o Concat(ss, mid + 1, hi)

\* The places of code unit c in s, ascending.
Positions(s, c) == SelectSeq([i \in 1..Len(s) |-> i], LAMBDA i : s[i] = c)

\* s cut at every c (String.prototype.split with a one-character separator).
Split(s, c) ==
    LET p == Positions(s, c)
        b == <<0>> \o p \o <<Len(s) + 1>>
    IN  [k \in 1..(Len(p) + 1) |-> SubSeq(s, b[k] + 1, b[k + 1] - 1)]

\* The first place at or after `from` where pat occurs in s, 0 when there is none.
IndexOf(s, pat, from) ==
    LET hits == {i \in from..(Len(s) - Len(pat) + 1) : SubSeq(s, i, i + Len(pat) - 1) = pat}
    IN  IF hits = {} THEN 0 ELSE CHOOSE i \in hits : \A j \in hits : i <= j

(***************************************************************************)
(* window.btoa and window.atob (HTML Standard, forgiving-base64).          *)
(***************************************************************************)
\* "ABCDEFGHIJKLMNOPQRSTUVWXYZabcdefghijklmnopqrstuvwxyz0123456789+/"
B64Chars == <<65, 66, 67, 68, 69, 70, 71, 72, 73, 74, 75, 76, 77, 78, 79, 80, 81, 82, 83, 84, 85, 86, 87,
    88, 89, 90, 97, 98, 99, 100, 101, 102, 103, 104, 105, 106, 107, 108, 109, 110, 111, 112,
    113, 114, 115, 116, 117, 118, 119, 120, 121, 122, 48, 49, 50, 51, 52, 53, 54, 55, 56, 57,
    43, 47>>

B64Char(v) == B64Chars[v + 1]

\* The value of a character of the alphabet: A-Z, a-z, 0-9, "+" (43), "/" (47).
B64Value(c) ==
    IF c \in 65..90 THEN c - 65
    ELSE IF c \in 97..122 THEN c - 71
    ELSE IF c \in 48..57 THEN c + 4
    ELSE IF c = 43 THEN 62
    ELSE 63

IsB64Char(c) == c \in 65..90 \/ c \in 97..122 \/ c \in 48..57 \/ c \in {43, 47}

\* The four characters for the bytes s[i], s[i+1], s[i+2]; "=" (61) pads a short group.
B64Group(s, i) ==
    LET n == Len(s)
        a == s[i]
        b == IF i + 1 <= n THEN s[i + 1] ELSE 0
        c == IF i + 2 <= n THEN s[i + 2] ELSE 0
    IN  << B64Char(a \div 4),
           B64Char((a % 4) * 16 + (b \div 16)),
           IF i + 1 <= n THEN B64Char((b % 16) * 4 + (c \div 64)) ELSE 61,
           IF i + 2 <= n THEN B64Char(c % 64) ELSE 61 >>

\* btoa(s): InvalidCharacterError when a code unit is above 0xFF.
Btoa(s) ==
    IF \E i \in 1..Len(s) : s[i] > 255 THEN Throw
    ELSE LET g == (Len(s) + 2) \div 3
         IN  Return(Concat([k \in 1..g |-> B64Group(s, 3 * (k - 1) + 1)], 1, g))

\* ASCII whitespace: TAB, LF, FF, CR, SPACE.
IsAsciiWhitespace(c) == c \in {9, 10, 12, 13, 32}

\* The bytes of the group of 2, 3 or 4 characters that starts at d[i].
AtobGroup(d, i) ==
    LET m  == IF i + 3 <= Len(d) THEN 4 ELSE Len(d) - i + 1
        v1 == B64Value(d[i])
        v2 == B64Value(d[i + 1])
        v3 == IF m >= 3 THEN B64Value(d[i + 2]) ELSE 0
        v4 == IF m >= 4 THEN B64Value(d[i + 3]) ELSE 0
        all == << v1 * 4 + (v2 \div 16), (v2 % 16) * 16 + (v3 \div 4), (v3 % 4) * 64 + v4 >>
    IN  SubSeq(all, 1, m - 1)

\* atob(s): whitespace is dropped, one or two trailing "=" of a length that is a
\* multiple of 4 are dropped, and a length of 1 modulo 4 or a character outside the
\* alphabet is an InvalidCharacterError.
Atob(s) ==
    LET d0 == SelectSeq(s, LAMBDA c : ~IsAsciiWhitespace(c))
        n0 == Len(d0)
        d1 == IF n0 % 4 = 0 /\ n0 >= 2 /\ d0[n0] = 61 /\ d0[n0 - 1] = 61
                  THEN SubSeq(d0, 1, n0 - 2)
              ELSE IF n0 % 4 = 0 /\ n0 >= 1 /\ d0[n0] = 61
                  THEN SubSeq(d0, 1, n0 - 1)
              ELSE d0
        g  == (Len(d1) + 3) \div 4
    IN  IF Len(d1) % 4 = 1 \/ \E i \in 1..Len(d1) : ~IsB64Char(d1[i]) THEN Throw
        ELSE Return(Concat([k \in 1..g |-> AtobGroup(d1, 4 * (k - 1) + 1)], 1, g))

(***************************************************************************)
(* encodeURIComponent and decodeURIComponent (ECMAScript, Encode/Decode).  *)
(***************************************************************************)
\* "0123456789ABCDEF"
HexDigits == <<48, 49, 50, 51, 52, 53, 54, 55, 56, 57, 65, 66, 67, 68, 69, 70>>

\* The value of a hexadecimal digit, -1 for any other character.
HexValue(c) ==
    IF c \in 48..57 THEN c - 48
    ELSE IF c \in 65..70 THEN c - 55
    ELSE IF c \in 97..102 THEN c - 87
    ELSE -1

\* "%XX" for the byte b (37 is "%").
PercentByte(b) == <<37, HexDigits[(b \div 16) + 1], HexDigits[(b % 16) + 1]>>

\* uriUnreserved: letters, digits and - _ . ! ~ * ' ( )
IsUriUnreserved(c) ==
    \/ c \in 65..90
    \/ c \in 97..122
    \/ c \in 48..57
    \/ c \in {45, 95, 46, 33, 126, 42, 39, 40, 41}

\* The UTF-8 bytes of a code point below 0x10000.
Utf8Bytes(c) ==
    IF c < 128 THEN <<c>>
    ELSE IF c < 2048 THEN <<192 + (c \div 64), 128 + (c % 64)>>
    ELSE <<224 + (c \div 4096), 128 + ((c \div 64) % 64), 128 + (c % 64)>>

\* The escape of one code unit.
EncodeUnit(c) ==
    IF IsUriUnreserved(c) THEN <<c>>
    ELSE LET bs == Utf8Bytes(c)
         IN  Concat([k \in 1..Len(bs) |-> PercentByte(bs[k])], 1, Len(bs))

\* encodeURIComponent(s): URIError on a surrogate (55296..57343) that is not half of
\* a pair; pairs are outside the inputs modelled, so every surrogate throws here.
EncodeURIComponent(s) ==
    IF \E i \in 1..Len(s) : s[i] \in 55296..57343 THEN Throw
    ELSE Return(Concat([k \in 1..Len(s) |-> EncodeUnit(s[k])], 1, Len(s)))

\* Whether "%XX" with two hexadecimal digits starts at s[i].
IsEscapeAt(s, i) ==
    /\ i + 2 <= Len(s)
    /\ s[i] = 37
    /\ HexValue(s[i + 1]) >= 0
    /\ HexValue(s[i + 2]) >= 0

EscapeValue(s, i) == 16 * HexValue(s[i + 1]) + HexValue(s[i + 2])

\* An escaped byte of 128 or more is kept, negated, until the bytes are decoded as
\* UTF-8; a byte below 128 is its character.
ByteItem(b) == IF b < 128 THEN b ELSE 0 - b

\* The number of bytes of the UTF-8 sequence that starts with byte b, 0 when b
\* starts none.
Utf8Length(b) ==
    IF b \in 194..223 THEN 2
    ELSE IF b \in 224..239 THEN 3
    ELSE IF b \in 240..244 THEN 4
    ELSE 0

\* The range of the byte that follows lead byte b (overlong forms, surrogates and
\* code points above 0x10FFFF are excluded here).
SecondByteRange(b) ==
    IF b = 224 THEN 160..191
    ELSE IF b = 237 THEN 128..159
    ELSE IF b = 240 THEN 144..191
    ELSE IF b = 244 THEN 128..143
    ELSE 128..191

\* Whether a well-formed UTF-8 sequence of escaped bytes starts at t[k].
IsUtf8At(t, k) ==
    LET n == Utf8Length(0 - t[k])
    IN  /\ t[k] < 0
        /\ n > 0
        /\ k + n - 1 <= Len(t)
        /\ \A j \in 1..(n - 1) :
              /\ t[k + j] < 0
              /\ (0 - t[k + j]) \in (IF j = 1 THEN SecondByteRange(0 - t[k]) ELSE 128..191)

\* The code units of the UTF-8 sequence at t[k] (a surrogate pair above 0xFFFF).
Utf8Units(t, k) ==
    LET b == 0 - t[k]
        n == Utf8Length(b)
        c(j) == (0 - t[k + j]) % 64
        cp == IF n = 2 THEN (b % 32) * 64 + c(1)
              ELSE IF n = 3 THEN (b % 16) * 4096 + c(1) * 64 + c(2)
              ELSE (b % 8) * 262144 + c(1) * 4096 + c(2) * 64 + c(3)
    IN  IF cp < 65536 THEN <<cp>>
        ELSE <<55296 + ((cp - 65536) \div 1024), 56320 + ((cp - 65536) % 1024)>>

RECURSIVE Utf8Decode(_, _, _, _)
\* t from place k on, decoded after acc.  A byte that starts no well-formed
\* sequence throws when strict, and becomes U+FFFD (65533) otherwise.
Utf8Decode(t, k, acc, strict) ==
    IF k > Len(t) THEN Return(acc)
    ELSE IF t[k] >= 0 THEN Utf8Decode(t, k + 1, Append(acc, t[k]), strict)
    ELSE IF IsUtf8At(t, k)
        THEN Utf8Decode(t, k + Utf8Length(0 - t[k]), acc \o Utf8Units(t, k), strict)
    ELSE IF strict THEN Throw
    ELSE Utf8Decode(t, k + 1, Append(acc, 65533), strict)

RECURSIVE StrictItems(_, _, _)
\* decodeURIComponent's scan: every "%" must start an escape.
StrictItems(s, i, acc) ==
    IF i > Len(s) THEN Return(acc)
    ELSE IF s[i] # 37 THEN StrictItems(s, i + 1, Append(acc, s[i]))
    ELSE IF IsEscapeAt(s, i)
        THEN StrictItems(s, i + 3, Append(acc, ByteItem(EscapeValue(s, i))))
    ELSE Throw

\* decodeURIComponent(s): URIError on a "%" that starts no escape and on escaped
\* bytes that are not UTF-8.
DecodeURIComponent(s) ==
    LET items == StrictItems(s, 1, << >>)
    IN  IF items.threw THEN Throw ELSE Utf8Decode(items.val, 1, << >>, TRUE)

(***************************************************************************)
(* URLSearchParams (URL Standard, application/x-www-form-urlencoded).      *)
(***************************************************************************)
\* What urlParams.get gives for a parameter that is not there: null, which no text
\* equals (no code unit is negative).
Null == <<-2>>

\* ToBoolean of what urlParams.get gives: only a non-empty string is truthy.
Truthy(v) == v # Null /\ v # << >>

RECURSIVE LenientItems(_, _, _)
\* The parser's scan of a name or value: "+" (43) is a space, "%XX" is a byte, and a
\* "%" that starts no escape stays as it is.
LenientItems(s, i, acc) ==
    IF i > Len(s) THEN acc
    ELSE IF IsEscapeAt(s, i)
        THEN LenientItems(s, i + 3, Append(acc, ByteItem(EscapeValue(s, i))))
    ELSE LenientItems(s, i + 1, Append(acc, IF s[i] = 43 THEN 32 ELSE s[i]))

FormDecode(s) == Utf8Decode(LenientItems(s, 1, << >>), 1, << >>, FALSE).val

\* One "name=value" piece, cut at its first "=" (61).
ParsePair(piece) ==
    LET e == IndexOf(piece, <<61>>, 1)
    IN  [name  |-> FormDecode(IF e = 0 THEN piece ELSE SubSeq(piece, 1, e - 1)),
         value |-> FormDecode(IF e = 0 THEN << >> ELSE SubSeq(piece, e + 1, Len(piece)))]

\* new URLSearchParams(query): a leading "?" (63) is dropped, the rest is cut at
\* every "&" (38), and empty pieces are skipped.
URLSearchParams(query) ==
    LET q      == IF Len(query) > 0 /\ query[1] = 63 THEN Tail(query) ELSE query
        pieces == SelectSeq(Split(q, 38), LAMBDA p : Len(p) > 0)
    IN  [k \in 1..Len(pieces) |-> ParsePair(pieces[k])]

\* urlParams.get(name): the value of the first pair of that name, or null.
Get(urlParams, name) ==
    LET hits == {k \in 1..Len(urlParams) : urlParams[k].name = name}
    IN  IF hits = {} THEN Null
        ELSE urlParams[CHOOSE k \in hits : \A j \in hits : k <= j].value

(***************************************************************************)
(* String values.  A buffer holds a JavaScript string, or undefined.  The  *)
(* long texts that the source spells out (the texts of TEMPLATES and the   *)
(* literal pieces of the composed document) are held by name; every other  *)
(* string is held by its code units.  Str keeps the form unique, so that   *)
(* two values are equal exactly when the strings are.                      *)
(***************************************************************************)
TEMPLATES_default_html ==
    <<60, 33, 68, 79, 67, 84, 89, 80, 69, 32, 104, 116, 109, 108, 62, 10, 60, 104, 116, 109, 108,
    62, 10, 60, 104, 101, 97, 100, 62, 10, 32, 32, 60, 116, 105, 116, 108, 101, 62, 76, 105,
    118, 101, 32, 80, 114, 101, 118, 105, 101, 119, 60, 47, 116, 105, 116, 108, 101, 62, 10,
    60, 47, 104, 101, 97, 100, 62, 10, 60, 98, 111, 100, 121, 62, 10, 32, 32, 60, 104, 49, 62,
    72, 101, 108, 108, 111, 32, 102, 114, 111, 109, 32, 116, 104, 101, 32, 69, 100, 105, 116,
    111, 114, 33, 60, 47, 104, 49, 62, 10, 32, 32, 60, 112, 62, 83, 116, 97, 114, 116, 32, 116,
    121, 112, 105, 110, 103, 32, 121, 111, 117, 114, 32, 72, 84, 77, 76, 32, 104, 101, 114,
    101, 46, 60, 47, 112, 62, 10, 32, 32, 60, 98, 117, 116, 116, 111, 110, 32, 105, 100, 61,
    34, 109, 121, 66, 117, 116, 116, 111, 110, 34, 62, 67, 108, 105, 99, 107, 32, 77, 101, 60,
    47, 98, 117, 116, 116, 111, 110, 62, 10, 60, 47, 98, 111, 100, 121, 62, 10, 60, 47, 104,
    116, 109, 108, 62>>

TEMPLATES_default_css ==
    <<98, 111, 100, 121, 32, 123, 10, 32, 32, 109, 97, 114, 103, 105, 110, 58, 32, 48, 59, 10,
    32, 32, 100, 105, 115, 112, 108, 97, 121, 58, 32, 102, 108, 101, 120, 59, 10, 32, 32, 106,
    117, 115, 116, 105, 102, 121, 45, 99, 111, 110, 116, 101, 110, 116, 58, 32, 99, 101, 110,
    116, 101, 114, 59, 10, 32, 32, 97, 108, 105, 103, 110, 45, 105, 116, 101, 109, 115, 58, 32,
    99, 101, 110, 116, 101, 114, 59, 10, 32, 32, 109, 105, 110, 45, 104, 101, 105, 103, 104,
    116, 58, 32, 49, 48, 48, 118, 104, 59, 10, 32, 32, 102, 108, 101, 120, 45, 100, 105, 114,
    101, 99, 116, 105, 111, 110, 58, 32, 99, 111, 108, 117, 109, 110, 59, 10, 125, 10, 104, 49,
    32, 123, 10, 32, 32, 116, 101, 120, 116, 45, 97, 108, 105, 103, 110, 58, 32, 99, 101, 110,
    116, 101, 114, 59, 10, 32, 32, 102, 111, 110, 116, 45, 115, 105, 122, 101, 58, 32, 51, 101,
    109, 59, 10, 32, 32, 99, 111, 108, 111, 114, 58, 32, 103, 114, 101, 101, 110, 59, 10, 125,
    10, 98, 117, 116, 116, 111, 110, 32, 123, 10, 32, 32, 112, 97, 100, 100, 105, 110, 103, 58,
    32, 49, 48, 112, 120, 32, 50, 48, 112, 120, 59, 10, 32, 32, 98, 97, 99, 107, 103, 114, 111,
    117, 110, 100, 45, 99, 111, 108, 111, 114, 58, 32, 35, 48, 48, 55, 98, 102, 102, 59, 10,
    32, 32, 99, 111, 108, 111, 114, 58, 32, 119, 104, 105, 116, 101, 59, 10, 32, 32, 98, 111,
    114, 100, 101, 114, 58, 32, 110, 111, 110, 101, 59, 10, 32, 32, 98, 111, 114, 100, 101,
    114, 45, 114, 97, 100, 105, 117, 115, 58, 32, 53, 112, 120, 59, 10, 32, 32, 99, 117, 114,
    115, 111, 114, 58, 32, 112, 111, 105, 110, 116, 101, 114, 59, 10, 32, 32, 109, 97, 114,
    103, 105, 110, 45, 116, 111, 112, 58, 32, 50, 48, 112, 120, 59, 10, 125, 10, 98, 117, 116,
    116, 111, 110, 58, 104, 111, 118, 101, 114, 32, 123, 10, 32, 32, 98, 97, 99, 107, 103, 114,
    111, 117, 110, 100, 45, 99, 111, 108, 111, 114, 58, 32, 35, 48, 48, 53, 54, 98, 51, 59, 10,
    125>>

TEMPLATES_default_js ==
    <<99, 111, 110, 115, 111, 108, 101, 46, 108, 111, 103, 40, 34, 72, 101, 108, 108, 111, 32,
    102, 114, 111, 109, 32, 74, 97, 118, 97, 83, 99, 114, 105, 112, 116, 33, 34, 41, 59, 10,
    100, 111, 99, 117, 109, 101, 110, 116, 46, 97, 100, 100, 69, 118, 101, 110, 116, 76, 105,
    115, 116, 101, 110, 101, 114, 40, 39, 68, 79, 77, 67, 111, 110, 116, 101, 110, 116, 76,
    111, 97, 100, 101, 100, 39, 44, 32, 40, 41, 32, 61, 62, 32, 123, 10, 32, 32, 99, 111, 110,
    115, 116, 32, 98, 117, 116, 116, 111, 110, 32, 61, 32, 100, 111, 99, 117, 109, 101, 110,
    116, 46, 103, 101, 116, 69, 108, 101, 109, 101, 110, 116, 66, 121, 73, 100, 40, 39, 109,
    121, 66, 117, 116, 116, 111, 110, 39, 41, 59, 10, 32, 32, 105, 102, 32, 40, 98, 117, 116,
    116, 111, 110, 41, 32, 123, 10, 32, 32, 32, 32, 98, 117, 116, 116, 111, 110, 46, 97, 100,
    100, 69, 118, 101, 110, 116, 76, 105, 115, 116, 101, 110, 101, 114, 40, 39, 99, 108, 105,
    99, 107, 39, 44, 32, 40, 41, 32, 61, 62, 32, 123, 10, 32, 32, 32, 32, 32, 32, 97, 108, 101,
    114, 116, 40, 39, 66, 117, 116, 116, 111, 110, 32, 99, 108, 105, 99, 107, 101, 100, 33, 39,
    41, 59, 10, 32, 32, 32, 32, 125, 41, 59, 10, 32, 32, 125, 10, 125, 41, 59>>

TEMPLATES_simpleCard_html ==
    <<60, 33, 68, 79, 67, 84, 89, 80, 69, 32, 104, 116, 109, 108, 62, 10, 60, 104, 116, 109, 108,
    62, 10, 60, 104, 101, 97, 100, 62, 10, 32, 32, 60, 116, 105, 116, 108, 101, 62, 83, 105,
    109, 112, 108, 101, 32, 67, 97, 114, 100, 60, 47, 116, 105, 116, 108, 101, 62, 10, 60, 47,
    104, 101, 97, 100, 62, 10, 60, 98, 111, 100, 121, 62, 10, 32, 32, 60, 100, 105, 118, 32,
    99, 108, 97, 115, 115, 61, 34, 99, 97, 114, 100, 34, 62, 10, 32, 32, 32, 32, 60, 104, 50,
    62, 67, 97, 114, 100, 32, 84, 105, 116, 108, 101, 60, 47, 104, 50, 62, 10, 32, 32, 32, 32,
    60, 112, 62, 84, 104, 105, 115, 32, 105, 115, 32, 97, 32, 115, 105, 109, 112, 108, 101, 32,
    99, 97, 114, 100, 32, 99, 114, 101, 97, 116, 101, 100, 32, 119, 105, 116, 104, 32, 72, 84,
    77, 76, 32, 97, 110, 100, 32, 67, 83, 83, 46, 60, 47, 112, 62, 10, 32, 32, 32, 32, 60, 98,
    117, 116, 116, 111, 110, 32, 99, 108, 97, 115, 115, 61, 34, 99, 97, 114, 100, 45, 98, 117,
    116, 116, 111, 110, 34, 62, 76, 101, 97, 114, 110, 32, 77, 111, 114, 101, 60, 47, 98, 117,
    116, 116, 111, 110, 62, 10, 32, 32, 60, 47, 100, 105, 118, 62, 10, 60, 47, 98, 111, 100,
    121, 62, 10, 60, 47, 104, 116, 109, 108, 62>>

TEMPLATES_simpleCard_css ==
    <<98, 111, 100, 121, 32, 123, 10, 32, 32, 102, 111, 110, 116, 45, 102, 97, 109, 105, 108,
    121, 58, 32, 115, 97, 110, 115, 45, 115, 101, 114, 105, 102, 59, 10, 32, 32, 109, 97, 114,
    103, 105, 110, 58, 32, 48, 59, 10, 32, 32, 100, 105, 115, 112, 108, 97, 121, 58, 32, 102,
    108, 101, 120, 59, 10, 32, 32, 106, 117, 115, 116, 105, 102, 121, 45, 99, 111, 110, 116,
    101, 110, 116, 58, 32, 99, 101, 110, 116, 101, 114, 59, 10, 32, 32, 97, 108, 105, 103, 110,
    45, 105, 116, 101, 109, 115, 58, 32, 99, 101, 110, 116, 101, 114, 59, 10, 32, 32, 109, 105,
    110, 45, 104, 101, 105, 103, 104, 116, 58, 32, 49, 48, 48, 118, 104, 59, 10, 32, 32, 98,
    97, 99, 107, 103, 114, 111, 117, 110, 100, 45, 99, 111, 108, 111, 114, 58, 32, 35, 102, 52,
    102, 52, 102, 52, 59, 10, 125, 10, 46, 99, 97, 114, 100, 32, 123, 10, 32, 32, 98, 97, 99,
    107, 103, 114, 111, 117, 110, 100, 45, 99, 111, 108, 111, 114, 58, 32, 35, 102, 102, 102,
    59, 10, 32, 32, 98, 111, 114, 100, 101, 114, 45, 114, 97, 100, 105, 117, 115, 58, 32, 56,
    112, 120, 59, 10, 32, 32, 98, 111, 120, 45, 115, 104, 97, 100, 111, 119, 58, 32, 48, 32,
    52, 112, 120, 32, 56, 112, 120, 32, 114, 103, 98, 97, 40, 48, 44, 32, 48, 44, 32, 48, 44,
    32, 48, 46, 49, 41, 59, 10, 32, 32, 112, 97, 100, 100, 105, 110, 103, 58, 32, 50, 48, 112,
    120, 59, 10, 32, 32, 119, 105, 100, 116, 104, 58, 32, 51, 48, 48, 112, 120, 59, 10, 32, 32,
    116, 101, 120, 116, 45, 97, 108, 105, 103, 110, 58, 32, 99, 101, 110, 116, 101, 114, 59,
    10, 125, 10, 46, 99, 97, 114, 100, 32, 104, 50, 32, 123, 10, 32, 32, 99, 111, 108, 111,
    114, 58, 32, 35, 51, 51, 51, 59, 10, 125, 10, 46, 99, 97, 114, 100, 32, 112, 32, 123, 10,
    32, 32, 99, 111, 108, 111, 114, 58, 32, 35, 54, 54, 54, 59, 10, 32, 32, 102, 111, 110, 116,
    45, 115, 105, 122, 101, 58, 32, 48, 46, 57, 101, 109, 59, 10, 32, 32, 108, 105, 110, 101,
    45, 104, 101, 105, 103, 104, 116, 58, 32, 49, 46, 53, 59, 10, 125, 10, 46, 99, 97, 114,
    100, 45, 98, 117, 116, 116, 111, 110, 32, 123, 10, 32, 32, 98, 97, 99, 107, 103, 114, 111,
    117, 110, 100, 45, 99, 111, 108, 111, 114, 58, 32, 35, 52, 67, 65, 70, 53, 48, 59, 10, 32,
    32, 99, 111, 108, 111, 114, 58, 32, 119, 104, 105, 116, 101, 59, 10, 32, 32, 112, 97, 100,
    100, 105, 110, 103, 58, 32, 49, 48, 112, 120, 32, 49, 53, 112, 120, 59, 10, 32, 32, 98,
    111, 114, 100, 101, 114, 58, 32, 110, 111, 110, 101, 59, 10, 32, 32, 98, 111, 114, 100,
    101, 114, 45, 114, 97, 100, 105, 117, 115, 58, 32, 53, 112, 120, 59, 10, 32, 32, 99, 117,
    114, 115, 111, 114, 58, 32, 112, 111, 105, 110, 116, 101, 114, 59, 10, 32, 32, 109, 97,
    114, 103, 105, 110, 45, 116, 111, 112, 58, 32, 49, 53, 112, 120, 59, 10, 125, 10, 46, 99,
    97, 114, 100, 45, 98, 117, 116, 116, 111, 110, 58, 104, 111, 118, 101, 114, 32, 123, 10,
    32, 32, 98, 97, 99, 107, 103, 114, 111, 117, 110, 100, 45, 99, 111, 108, 111, 114, 58, 32,
    35, 52, 53, 97, 48, 52, 57, 59, 10, 125>>

TEMPLATES_simpleCard_js ==
    <<99, 111, 110, 115, 111, 108, 101, 46, 108, 111, 103, 40, 34, 67, 97, 114, 100, 32, 108,
    111, 97, 100, 101, 100, 33, 34, 41, 59, 10, 100, 111, 99, 117, 109, 101, 110, 116, 46, 97,
    100, 100, 69, 118, 101, 110, 116, 76, 105, 115, 116, 101, 110, 101, 114, 40, 39, 68, 79,
    77, 67, 111, 110, 116, 101, 110, 116, 76, 111, 97, 100, 101, 100, 39, 44, 32, 40, 41, 32,
    61, 62, 32, 123, 10, 32, 32, 99, 111, 110, 115, 116, 32, 98, 117, 116, 116, 111, 110, 32,
    61, 32, 100, 111, 99, 117, 109, 101, 110, 116, 46, 113, 117, 101, 114, 121, 83, 101, 108,
    101, 99, 116, 111, 114, 40, 39, 46, 99, 97, 114, 100, 45, 98, 117, 116, 116, 111, 110, 39,
    41, 59, 10, 32, 32, 105, 102, 32, 40, 98, 117, 116, 116, 111, 110, 41, 32, 123, 10, 32, 32,
    32, 32, 98, 117, 116, 116, 111, 110, 46, 97, 100, 100, 69, 118, 101, 110, 116, 76, 105,
    115, 116, 101, 110, 101, 114, 40, 39, 99, 108, 105, 99, 107, 39, 44, 32, 40, 41, 32, 61,
    62, 32, 123, 10, 32, 32, 32, 32, 32, 32, 97, 108, 101, 114, 116, 40, 39, 67, 97, 114, 100,
    32, 98, 117, 116, 116, 111, 110, 32, 99, 108, 105, 99, 107, 101, 100, 33, 39, 41, 59, 10,
    32, 32, 32, 32, 125, 41, 59, 10, 32, 32, 125, 10, 125, 41, 59>>

TEMPLATES_flexboxExample_html ==
    <<60, 33, 68, 79, 67, 84, 89, 80, 69, 32, 104, 116, 109, 108, 62, 10, 60, 104, 116, 109, 108,
    62, 10, 60, 104, 101, 97, 100, 62, 10, 32, 32, 60, 116, 105, 116, 108, 101, 62, 70, 108,
    101, 120, 98, 111, 120, 32, 76, 97, 121, 111, 117, 116, 60, 47, 116, 105, 116, 108, 101,
    62, 10, 60, 47, 104, 101, 97, 100, 62, 10, 60, 98, 111, 100, 121, 62, 10, 32, 32, 60, 100,
    105, 118, 32, 99, 108, 97, 115, 115, 61, 34, 102, 108, 101, 120, 45, 99, 111, 110, 116, 97,
    105, 110, 101, 114, 34, 62, 10, 32, 32, 32, 32, 60, 100, 105, 118, 32, 99, 108, 97, 115,
    115, 61, 34, 102, 108, 101, 120, 45, 105, 116, 101, 109, 34, 62, 73, 116, 101, 109, 32, 49,
    60, 47, 100, 105, 118, 62, 10, 32, 32, 32, 32, 60, 100, 105, 118, 32, 99, 108, 97, 115,
    115, 61, 34, 102, 108, 101, 120, 45, 105, 116, 101, 109, 34, 62, 73, 116, 101, 109, 32, 50,
    60, 47, 100, 105, 118, 62, 10, 32, 32, 32, 32, 60, 100, 105, 118, 32, 99, 108, 97, 115,
    115, 61, 34, 102, 108, 101, 120, 45, 105, 116, 101, 109, 34, 62, 73, 116, 101, 109, 32, 51,
    60, 47, 100, 105, 118, 62, 10, 32, 32, 60, 47, 100, 105, 118, 62, 10, 60, 47, 98, 111, 100,
    121, 62, 10, 60, 47, 104, 116, 109, 108, 62>>

TEMPLATES_flexboxExample_css ==
    <<98, 111, 100, 121, 32, 123, 10, 32, 32, 102, 111, 110, 116, 45, 102, 97, 109, 105, 108,
    121, 58, 32, 115, 97, 110, 115, 45, 115, 101, 114, 105, 102, 59, 10, 32, 32, 109, 97, 114,
    103, 105, 110, 58, 32, 48, 59, 10, 32, 32, 100, 105, 115, 112, 108, 97, 121, 58, 32, 102,
    108, 101, 120, 59, 10, 32, 32, 106, 117, 115, 116, 105, 102, 121, 45, 99, 111, 110, 116,
    101, 110, 116, 58, 32, 99, 101, 110, 116, 101, 114, 59, 10, 32, 32, 97, 108, 105, 103, 110,
    45, 105, 116, 101, 109, 115, 58, 32, 99, 101, 110, 116, 101, 114, 59, 10, 32, 32, 109, 105,
    110, 45, 104, 101, 105, 103, 104, 116, 58, 32, 49, 48, 48, 118, 104, 59, 10, 32, 32, 98,
    97, 99, 107, 103, 114, 111, 117, 110, 100, 45, 99, 111, 108, 111, 114, 58, 32, 35, 101,
    101, 101, 59, 10, 125, 10, 46, 102, 108, 101, 120, 45, 99, 111, 110, 116, 97, 105, 110,
    101, 114, 32, 123, 10, 32, 32, 100, 105, 115, 112, 108, 97, 121, 58, 32, 102, 108, 101,
    120, 59, 10, 32, 32, 102, 108, 101, 120, 45, 119, 114, 97, 112, 58, 32, 119, 114, 97, 112,
    59, 10, 32, 32, 103, 97, 112, 58, 32, 49, 48, 112, 120, 59, 10, 32, 32, 112, 97, 100, 100,
    105, 110, 103, 58, 32, 50, 48, 112, 120, 59, 10, 32, 32, 98, 97, 99, 107, 103, 114, 111,
    117, 110, 100, 45, 99, 111, 108, 111, 114, 58, 32, 35, 102, 102, 102, 59, 10, 32, 32, 98,
    111, 114, 100, 101, 114, 45, 114, 97, 100, 105, 117, 115, 58, 32, 56, 112, 120, 59, 10, 32,
    32, 98, 111, 120, 45, 115, 104, 97, 100, 111, 119, 58, 32, 48, 32, 50, 112, 120, 32, 52,
    112, 120, 32, 114, 103, 98, 97, 40, 48, 44, 48, 44, 48, 44, 48, 46, 49, 41, 59, 10, 125,
    10, 46, 102, 108, 101, 120, 45, 105, 116, 101, 109, 32, 123, 10, 32, 32, 98, 97, 99, 107,
    103, 114, 111, 117, 110, 100, 45, 99, 111, 108, 111, 114, 58, 32, 35, 48, 48, 55, 98, 102,
    102, 59, 10, 32, 32, 99, 111, 108, 111, 114, 58, 32, 119, 104, 105, 116, 101, 59, 10, 32,
    32, 112, 97, 100, 100, 105, 110, 103, 58, 32, 50, 48, 112, 120, 59, 10, 32, 32, 98, 111,
    114, 100, 101, 114, 45, 114, 97, 100, 105, 117, 115, 58, 32, 53, 112, 120, 59, 10, 32, 32,
    102, 108, 101, 120, 58, 32, 49, 59, 32, 47, 42, 32, 65, 108, 108, 111, 119, 115, 32, 105,
    116, 101, 109, 115, 32, 116, 111, 32, 103, 114, 111, 119, 32, 97, 110, 100, 32, 115, 104,
    114, 105, 110, 107, 32, 42, 47, 10, 32, 32, 109, 105, 110, 45, 119, 105, 100, 116, 104, 58,
    32, 49, 48, 48, 112, 120, 59, 10, 32, 32, 116, 101, 120, 116, 45, 97, 108, 105, 103, 110,
    58, 32, 99, 101, 110, 116, 101, 114, 59, 10, 125, 10>>

TEMPLATES_flexboxExample_js ==
    <<99, 111, 110, 115, 111, 108, 101, 46, 108, 111, 103, 40, 34, 70, 108, 101, 120, 98, 111,
    120, 32, 101, 120, 97, 109, 112, 108, 101, 32, 108, 111, 97, 100, 101, 100, 46, 34, 41, 59>>

\* The literal pieces of the template literal fullSrcDoc: up to "<style>", from
\* "</style>" to the indentation inside "<body>", the line break and "<script>",
\* and from "</script>" to the end.
fullSrcDoc_head ==
    <<10, 32, 32, 32, 32, 32, 32, 60, 33, 68, 79, 67, 84, 89, 80, 69, 32, 104, 116, 109, 108, 62,
    10, 32, 32, 32, 32, 32, 32, 60, 104, 116, 109, 108, 62, 10, 32, 32, 32, 32, 32, 32, 60,
    104, 101, 97, 100, 62, 10, 32, 32, 32, 32, 32, 32, 32, 32, 60, 115, 116, 121, 108, 101, 62>>

fullSrcDoc_styleToBody ==
    <<60, 47, 115, 116, 121, 108, 101, 62, 10, 32, 32, 32, 32, 32, 32, 60, 47, 104, 101, 97, 100,
    62, 10, 32, 32, 32, 32, 32, 32, 60, 98, 111, 100, 121, 62, 10, 32, 32, 32, 32, 32, 32, 32,
    32>>

fullSrcDoc_bodyToScript ==
    <<10, 32, 32, 32, 32, 32, 32, 32, 32, 60, 115, 99, 114, 105, 112, 116, 62>>

fullSrcDoc_tail ==
    <<60, 47, 115, 99, 114, 105, 112, 116, 62, 10, 32, 32, 32, 32, 32, 32, 60, 47, 98, 111, 100,
    121, 62, 10, 32, 32, 32, 32, 32, 32, 60, 47, 104, 116, 109, 108, 62, 10, 32, 32, 32, 32>>

\* The texts held by name.
NamedTexts ==
    [TEMPLATES_default_html |-> TEMPLATES_default_html,
     TEMPLATES_default_css |-> TEMPLATES_default_css,
     TEMPLATES_default_js |-> TEMPLATES_default_js,
     TEMPLATES_simpleCard_html |-> TEMPLATES_simpleCard_html,
     TEMPLATES_simpleCard_css |-> TEMPLATES_simpleCard_css,
     TEMPLATES_simpleCard_js |-> TEMPLATES_simpleCard_js,
     TEMPLATES_flexboxExample_html |-> TEMPLATES_flexboxExample_html,
     TEMPLATES_flexboxExample_css |-> TEMPLATES_flexboxExample_css,
     TEMPLATES_flexboxExample_js |-> TEMPLATES_flexboxExample_js,
     fullSrcDoc_head |-> fullSrcDoc_head,
     fullSrcDoc_styleToBody |-> fullSrcDoc_styleToBody,
     fullSrcDoc_bodyToScript |-> fullSrcDoc_bodyToScript,
     fullSrcDoc_tail |-> fullSrcDoc_tail]

\* The string of the text named name.
Named(name) == [ref |-> name, chars |-> << >>]

\* The string of the code units chars, when no name holds them.
Literal(chars) == [ref |-> "", chars |-> chars]

\* JavaScript's undefined.
Undefined == [ref |-> "undefined", chars |-> << >>]

\* The string of the code units chars.
Str(chars) ==
    LET names == {n \in DOMAIN NamedTexts : NamedTexts[n] = chars}
    IN  IF names = {} THEN Literal(chars) ELSE Named(CHOOSE n \in names : TRUE)

\* The code units of a string.
Chars(s) == IF s.ref = "" THEN s.chars ELSE NamedTexts[s.ref]

\* ToString of a string or undefined, as a template literal and btoa apply it.
JsToString(v) == IF v = Undefined THEN Str(<<117, 110, 100, 101, 102, 105, 110, 101, 100>>) ELSE v

(***************************************************************************)
(* TEMPLATES, the registry of src/src/App.js, lines 6 to 159.              *)
(***************************************************************************)
Template(html, css, js) == [html |-> html, css |-> css, js |-> js]

TEMPLATES ==
    [default |-> Template(Named("TEMPLATES_default_html"),
                          Named("TEMPLATES_default_css"),
                          Named("TEMPLATES_default_js")),
     simpleCard |-> Template(Named("TEMPLATES_simpleCard_html"),
                             Named("TEMPLATES_simpleCard_css"),
                             Named("TEMPLATES_simpleCard_js")),
     flexboxExample |-> Template(Named("TEMPLATES_flexboxExample_html"),
                                 Named("TEMPLATES_flexboxExample_css"),
                                 Named("TEMPLATES_flexboxExample_js"))]

\* Object.keys(TEMPLATES)
TemplateKeys == DOMAIN TEMPLATES

\* Names that every object literal inherits from Object.prototype; the values are
\* functions or objects, which are truthy and have no html, css or js property.
ObjectPrototypeKeys ==
    {"constructor", "toString", "valueOf", "hasOwnProperty", "isPrototypeOf",
     "propertyIsEnumerable", "toLocaleString", "__proto__"}

\* TEMPLATES[templateName]: an own property, else an inherited one, else undefined.
\* truthy is what `if (template)` sees.
LookupTemplate(templateName) ==
    IF templateName \in TemplateKeys
        THEN [truthy |-> TRUE, template |-> TEMPLATES[templateName]]
    ELSE IF templateName \in ObjectPrototypeKeys
        THEN [truthy |-> TRUE, template |-> Template(Undefined, Undefined, Undefined)]
    ELSE [truthy |-> FALSE, template |-> Template(Undefined, Undefined, Undefined)]

(***************************************************************************)
(* The composed document: the pieces of the template literal and the       *)
(* values substituted into it, in order.  '' is the document of no piece.  *)
(***************************************************************************)
\* A composer that puts the script before the markup.
ComposeScriptFirst(html, css, js) ==
    << Named("fullSrcDoc_head"), JsToString(css), Named("fullSrcDoc_styleToBody"),
       Named("fullSrcDoc_bodyToScript"), JsToString(js), JsToString(html),
       Named("fullSrcDoc_tail") >>

\* fullSrcDoc for the three buffers: style, then markup, then script.
Compose(html, css, js) ==
    << Named("fullSrcDoc_head"), JsToString(css), Named("fullSrcDoc_styleToBody"),
       JsToString(html), Named("fullSrcDoc_bodyToScript"), JsToString(js),
       Named("fullSrcDoc_tail") >>

\* The code units of a document.
DocText(doc) == Concat([k \in 1..Len(doc) |-> Chars(doc[k])], 1, Len(doc))

(***************************************************************************)
(* The App component: its state, what the browser holds for it, and the    *)
(* history the properties need.                                            *)
(***************************************************************************)
VARIABLES
    search,       \* window.location.search of the page
    mounted,      \* whether App has rendered and its DOM is committed
    htmlCode,     \* useState(TEMPLATES.default.html)
    cssCode,      \* useState(TEMPLATES.default.css)
    jsCode,       \* useState(TEMPLATES.default.js)
    srcDoc,       \* useState(''), the srcDoc prop of the iframe once mounted
    passive,      \* the effects of the last commit that have not run yet
    shareUrlRef,  \* shareUrlRef.current: null, or the value of the hidden input
    dialog,       \* the last alert shown, NoDialog when there was none
    uncaught,     \* whether an event handler ended in an uncaught exception
    console,      \* the kinds of console output so far: "error", "warn"
    hostAccess,   \* what became of the framed script's last reach for the host page
    lastEvent,    \* history: the last handler or load-time decode, and what it did
    shared        \* history: the buffers the link in `search` was made from

vars == <<search, mounted, htmlCode, cssCode, jsCode, srcDoc, passive, shareUrlRef,
          dialog, uncaught, console, hostAccess, lastEvent, shared>>

Buffers == [html |-> htmlCode, css |-> cssCode, js |-> jsCode]

NoDialog == [kind |-> "none", url |-> << >>]

NoEvent == [op |-> "none"]

\* No link: no buffer is this value.
NoShare == [html |-> Named("none"), css |-> Named("none"), js |-> Named("none")]

\* sandbox="allow-scripts allow-forms allow-same-origin" of the iframe.
Sandbox == {"allow-scripts", "allow-forms", "allow-same-origin"}

\* window.location.origin of the page that shares.
Origin == <<104, 116, 116, 112, 58, 47, 47, 108, 111, 99, 97, 108, 104, 111, 115, 116, 58, 51, 48, 48,
    48>>

(***************************************************************************)
(* State updates.  The setters of one handler or of one flush of effects   *)
(* are queued and applied in order by the next render; the last one wins.  *)
(***************************************************************************)
Set(field, value) == [field |-> field, value |-> value]

ApplyUpdate(b, u) == [b EXCEPT ![u.field] = u.value]

RECURSIVE ApplyUpdates(_, _)
ApplyUpdates(b, us) ==
    IF us = << >> THEN b ELSE ApplyUpdates(ApplyUpdate(b, Head(us)), Tail(us))

(***************************************************************************)
(* The effect that reads the share link (lines 197 to 216).                *)
(***************************************************************************)
\* "html", "css", "js"
ParamName(field) ==
    IF field = "html" THEN <<104, 116, 109, 108>> ELSE IF field = "css" THEN <<99, 115, 115>> ELSE <<106, 115>>

\* atob(decodeURIComponent(v))
DecodeParam(v) ==
    LET u == DecodeURIComponent(v)
    IN  IF u.threw THEN Throw ELSE Atob(u.val)

NoDecode == [updates |-> << >>, threw |-> FALSE, attempted |-> {}]

\* A try statement that clears the buffer of a parameter that is not there.
TryStatementClearingAbsent(field, urlValue, r) ==
    IF r.threw THEN r
    ELSE IF ~Truthy(urlValue)
        THEN [r EXCEPT !.updates = Append(@, Set(field, Str(<< >>)))]
    ELSE LET d == DecodeParam(urlValue)
         IN  IF d.threw
                 THEN [r EXCEPT !.threw = TRUE, !.attempted = @ \cup {field}]
             ELSE [r EXCEPT !.updates = Append(@, Set(field, Str(d.val))),
                            !.attempted = @ \cup {field}]

\* One statement of the try block, `if (urlX) setX(atob(decodeURIComponent(urlX)))`,
\* after the statements whose outcome is r: skipped once one has thrown.
TryStatement(field, urlValue, r) ==
    IF r.threw \/ ~Truthy(urlValue) THEN r
    ELSE LET d == DecodeParam(urlValue)
         IN  IF d.threw
                 THEN [r EXCEPT !.threw = TRUE, !.attempted = @ \cup {field}]
             ELSE [r EXCEPT !.updates = Append(@, Set(field, Str(d.val))),
                            !.attempted = @ \cup {field}]

\* A catch block that logs and resets nothing.
CatchBlockLogsOnly == << >>

\* The catch block: the three buffers are set to the default template.
CatchBlock ==
    << Set("html", TEMPLATES.default.html),
       Set("css", TEMPLATES.default.css),
       Set("js", TEMPLATES.default.js) >>

\* The whole effect for the query string: the setter calls it makes, whether
\* decoding threw, and which parameters it tried to decode.
UrlEffect(query) ==
    LET urlParams == URLSearchParams(query)
        urlHtml   == Get(urlParams, ParamName("html"))
        urlCss    == Get(urlParams, ParamName("css"))
        urlJs     == Get(urlParams, ParamName("js"))
        try       == TryStatement("js", urlJs,
                        TryStatement("css", urlCss,
                            TryStatement("html", urlHtml, NoDecode)))
    IN  IF Truthy(urlHtml) \/ Truthy(urlCss) \/ Truthy(urlJs)
            THEN IF try.threw THEN [try EXCEPT !.updates = @ \o CatchBlock] ELSE try
        ELSE NoDecode

(***************************************************************************)
(* Rendering.  React commits a render and runs its effects afterwards;     *)
(* the effects of a commit run before the next update is rendered.  The    *)
(* srcDoc effect is scheduled by a commit whose htmlCode, cssCode or       *)
(* jsCode differs from the commit before (its dependency array).           *)
(***************************************************************************)
\* The srcDoc state once the pending srcDoc effect, if any, has run: the effect
\* composes the buffers of the commit that scheduled it.
SrcDocAfterEffects ==
    IF "srcDoc" \in passive THEN Compose(htmlCode, cssCode, jsCode) ELSE srcDoc

\* A dependency array of htmlCode alone.
ScheduledOnHtmlChange(b) == IF b.html # htmlCode THEN {"srcDoc"} ELSE {}

\* The effects the commit of buffers b schedules.
Scheduled(b) == IF b # Buffers THEN {"srcDoc"} ELSE {}

\* A handler has queued the setter calls us: pending effects run, the queue is
\* applied, and the render is committed.
Render(us) ==
    LET b == ApplyUpdates(Buffers, us)
    IN  /\ htmlCode' = b.html
        /\ cssCode' = b.css
        /\ jsCode' = b.js
        /\ srcDoc' = SrcDocAfterEffects
        /\ passive' = Scheduled(b)

\* The first render of App and its commit: both effects are scheduled, and the
\* ref of the hidden input is set.
Mount ==
    /\ ~mounted
    /\ mounted' = TRUE
    /\ passive' = {"srcDoc", "url"}
    /\ shareUrlRef' = << >>
    /\ UNCHANGED <<search, htmlCode, cssCode, jsCode, srcDoc, dialog, uncaught, console,
                   hostAccess, lastEvent, shared>>

\* React runs the pending effects in the order of their definition, then renders
\* and commits the state they set.
FlushPassiveEffects ==
    /\ mounted
    /\ passive # {}
    /\ LET url == IF "url" \in passive THEN UrlEffect(search) ELSE NoDecode
           b   == ApplyUpdates(Buffers, url.updates)
       IN  /\ htmlCode' = b.html
           /\ cssCode' = b.css
           /\ jsCode' = b.js
           /\ srcDoc' = SrcDocAfterEffects
           /\ passive' = Scheduled(b)
           /\ console' = IF url.threw THEN console \cup {"error"} ELSE console
           /\ lastEvent' = IF "url" \in passive
                              THEN [op |-> "urlEffect", threw |-> url.threw,
                                    attempted |-> url.attempted]
                           ELSE lastEvent
    /\ UNCHANGED <<search, mounted, shareUrlRef, dialog, uncaught, hostAccess, shared>>

\* Handlers run once the load-time effects have (the decode precedes any user edit).
Interactive == mounted /\ "url" \notin passive

(***************************************************************************)
(* The editors: onChange={setHtmlCode}, {setCssCode}, {setJsCode}; value   *)
(* is the code units of the text the editor reports.                       *)
(***************************************************************************)
onChange(field, value) ==
    /\ Interactive
    /\ Render(<<Set(field, Str(value))>>)
    /\ lastEvent' = [op |-> "onChange", field |-> field]
    /\ UNCHANGED <<search, mounted, shareUrlRef, dialog, uncaught, console, hostAccess,
                   shared>>

(***************************************************************************)
(* loadTemplate (lines 231 to 243); confirmed is the answer window.confirm *)
(* gives if it is asked.                                                   *)
(***************************************************************************)
\* A loadTemplate that asks and then loads whatever the answer.
LoadTemplateIgnoringAnswer(templateName, confirmed) ==
    LET t == LookupTemplate(templateName)
    IN  IF templateName = "" THEN [updates |-> << >>, asked |-> FALSE, warned |-> FALSE]
        ELSE IF t.truthy
            THEN [updates |-> << Set("html", t.template.html),
                                 Set("css", t.template.css),
                                 Set("js", t.template.js) >>,
                  asked |-> TRUE, warned |-> FALSE]
        ELSE [updates |-> << >>, asked |-> FALSE, warned |-> TRUE]

\* What the call does: the setter calls, whether it asked, whether it warned.
LoadTemplateOutcome(templateName, confirmed) ==
    LET t == LookupTemplate(templateName)
    IN  IF templateName = "" THEN [updates |-> << >>, asked |-> FALSE, warned |-> FALSE]
        ELSE IF t.truthy
            THEN [updates |-> IF confirmed
                                  THEN << Set("html", t.template.html),
                                          Set("css", t.template.css),
                                          Set("js", t.template.js) >>
                              ELSE << >>,
                  asked |-> TRUE, warned |-> FALSE]
        ELSE [updates |-> << >>, asked |-> FALSE, warned |-> TRUE]

loadTemplate(templateName, confirmed) ==
    /\ Interactive
    /\ LET o == LoadTemplateOutcome(templateName, confirmed)
       IN  /\ IF o.updates = << >>
                  THEN UNCHANGED <<htmlCode, cssCode, jsCode, srcDoc, passive>>
              ELSE Render(o.updates)
           /\ console' = IF o.warned THEN console \cup {"warn"} ELSE console
           /\ lastEvent' = [op |-> "loadTemplate", name |-> templateName,
                            asked |-> o.asked, accepted |-> o.asked /\ confirmed,
                            warned |-> o.warned, before |-> Buffers]
    /\ UNCHANGED <<search, mounted, shareUrlRef, dialog, uncaught, hostAccess, shared>>

(***************************************************************************)
(* The iframe.  The script of the composed document runs when the sandbox  *)
(* allows scripts, and it shares the origin of the page, with its storage, *)
(* cookies and parent DOM, when the sandbox allows the same origin.        *)
(***************************************************************************)
FramedScriptReachesHost ==
    /\ mounted
    /\ srcDoc # << >>
    /\ "allow-scripts" \in Sandbox
    /\ hostAccess' = IF "allow-same-origin" \in Sandbox THEN "granted" ELSE "blocked"
    /\ UNCHANGED <<search, mounted, htmlCode, cssCode, jsCode, srcDoc, passive,
                   shareUrlRef, dialog, uncaught, console, lastEvent, shared>>

(***************************************************************************)
(* Share Code: generateShareUrl (lines 220 to 228) and the button's        *)
(* onClick (lines 320 to 338).                                             *)
(***************************************************************************)
\* encodeURIComponent(btoa(code))
EncodeParam(code) ==
    LET b == Btoa(Chars(JsToString(code)))
    IN  IF b.threw THEN Throw ELSE EncodeURIComponent(b.val)

\* The URL for the buffers of the last render; it throws when btoa does.
generateShareUrl ==
    LET encodedHtml == EncodeParam(htmlCode)
        encodedCss  == EncodeParam(cssCode)
        encodedJs   == EncodeParam(jsCode)
    IN  IF encodedHtml.threw \/ encodedCss.threw \/ encodedJs.threw THEN Throw
        ELSE Return(Origin \o <<47, 63, 104, 116, 109, 108, 61>> \o encodedHtml.val
                        \o <<38, 99, 115, 115, 61>> \o encodedCss.val
                        \o <<38, 106, 115, 61>> \o encodedJs.val)

\* What the click leaves: the value of the hidden input, the alert, and whether the
\* handler ended in an exception.  clipboard is what navigator.clipboard does:
\* "resolved", "rejected", or "absent" (document.execCommand is used).  The alert of
\* the clipboard promise is taken with the click.
ShareOutcome(clipboard) ==
    LET url == generateShareUrl
    IN  IF url.threw
            THEN [input |-> shareUrlRef, dialog |-> dialog, uncaught |-> TRUE]
        ELSE IF shareUrlRef # Null
            THEN [input |-> url.val,
                  dialog |-> [kind |-> IF clipboard = "rejected" THEN "failed" ELSE "copied",
                              url |-> url.val],
                  uncaught |-> uncaught]
        ELSE [input |-> shareUrlRef, dialog |-> [kind |-> "plain", url |-> url.val],
              uncaught |-> uncaught]

ShareClick(clipboard) ==
    /\ Interactive
    /\ LET o == ShareOutcome(clipboard)
       IN  /\ shareUrlRef' = o.input
           /\ dialog' = o.dialog
           /\ uncaught' = o.uncaught
    /\ lastEvent' = [op |-> "share", threw |-> generateShareUrl.threw, before |-> Buffers]
    /\ UNCHANGED <<search, mounted, htmlCode, cssCode, jsCode, srcDoc, passive, console,
                   hostAccess, shared>>

(***************************************************************************)
(* Pages.                                                                  *)
(***************************************************************************)
\* The query of a URL: from its first "?" (63) on; the share URL holds no "#".
LocationSearch(url) ==
    LET q == IndexOf(url, <<63>>, 1)
    IN  IF q = 0 THEN << >> ELSE SubSeq(url, q, Len(url))

\* App before its first render, on a page whose query string is query.
FreshPage(query) ==
    /\ search = query
    /\ mounted = FALSE
    /\ htmlCode = TEMPLATES.default.html
    /\ cssCode = TEMPLATES.default.css
    /\ jsCode = TEMPLATES.default.js
    /\ srcDoc = << >>
    /\ passive = {}
    /\ shareUrlRef = Null
    /\ dialog = NoDialog
    /\ uncaught = FALSE
    /\ console = {}
    /\ hostAccess = "none"
    /\ lastEvent = NoEvent
    /\ shared = NoShare

\* The link that the last Share Code click showed is opened: a new page, a new App.
OpenLink ==
    /\ shared = NoShare
    /\ lastEvent.op = "share"
    /\ ~lastEvent.threw
    /\ search' = LocationSearch(dialog.url)
    /\ shared' = lastEvent.before
    /\ mounted' = FALSE
    /\ htmlCode' = TEMPLATES.default.html
    /\ cssCode' = TEMPLATES.default.css
    /\ jsCode' = TEMPLATES.default.js
    /\ srcDoc' = << >>
    /\ passive' = {}
    /\ shareUrlRef' = Null
    /\ dialog' = NoDialog
    /\ uncaught' = FALSE
    /\ console' = {}
    /\ hostAccess' = "none"
    /\ lastEvent' = NoEvent

(***************************************************************************)
(* Bounds and inputs.                                                      *)
(***************************************************************************)
\* The longest text an editor reports in Spec.
MaxEditLen == 1

\* The longest buffer that is shared in SpecShare.
MaxShareLen == 3

\* The most parameters of a query string in SpecLink.
MaxParams == 3

\* The texts over alphabet of at most n code units.
Texts(alphabet, n) == UNION {[1..k -> alphabet] : k \in 0..n}

\* "a"
EditTexts == Texts({97}, MaxEditLen)

\* "a", u-circumflex (0xFB) and the euro sign (0x20AC): base64 reaches "+", "/" and
\* both paddings, and the euro sign is above 0xFF.
ShareTexts == Texts({97, 251, 8364}, MaxShareLen)

\* "" and u-circumflex y-diaeresis (0xFB 0xFF)
FewTexts == {<< >>, <<251, 255>>}

\* One buffer ranges over ShareTexts, the other two over FewTexts.
ShareTriples ==
    {Template(h, c, j) : h \in ShareTexts, c \in FewTexts, j \in FewTexts}
        \cup {Template(h, c, j) : h \in FewTexts, c \in ShareTexts, j \in FewTexts}
        \cup {Template(h, c, j) : h \in FewTexts, c \in FewTexts, j \in ShareTexts}

\* The names loadTemplate is called with: the options of the select ("" is
\* "-- Select --"), a name nothing defines, and a name Object.prototype defines.
TemplateNames == TemplateKeys \cup {"", "missing", "constructor"}

\* "html", "css", "js", and "x", a parameter the effect does not read.
QueryNames == {<<104, 116, 109, 108>>, <<99, 115, 115>>, <<106, 115>>, <<120>>}

\* "", "YQ%3D%3D" (the base64 of "a", escaped), "Y" (no base64), "%" (no escape).
QueryValues == {<< >>, <<89, 81, 37, 51, 68, 37, 51, 68>>, <<89>>, <<37>>}

\* "?n1=v1&n2=v2...", "" for no parameter at all.
QueryString(names, values) ==
    LET k == Len(names)
        piece(i) == (IF i = 1 THEN <<63>> ELSE <<38>>) \o names[i] \o <<61>> \o values[i]
    IN  Concat([i \in 1..k |-> piece(i)], 1, k)

\* Every order of up to MaxParams parameters of different names.
LinkQueries ==
    UNION {{QueryString(n, v) :
               n \in {s \in [1..k -> QueryNames] : \A i, j \in 1..k : s[i] = s[j] => i = j},
               v \in [1..k -> QueryValues]} : k \in 0..MaxParams}

\* No query, a link for html alone ("a"), and a link whose css decodes and whose
\* js does not ("?css=YQ%3D%3D&js=%").
AppQueries ==
    {<< >>, <<63, 104, 116, 109, 108, 61, 89, 81, 37, 51, 68, 37, 51, 68>>, <<63, 99, 115, 115, 61, 89, 81, 37, 51, 68, 37, 51, 68, 38, 106, 115, 61, 37>>}

(***************************************************************************)
(* Specifications.                                                         *)
(***************************************************************************)
\* The page with the editors, the template select and the preview.
Init == \E q \in AppQueries : FreshPage(q)

Next ==
    \/ Mount
    \/ FlushPassiveEffects
    \/ \E field \in {"html", "css", "js"}, value \in EditTexts : onChange(field, value)
    \/ \E templateName \in TemplateNames, confirmed \in BOOLEAN :
           loadTemplate(templateName, confirmed)
    \/ FramedScriptReachesHost

Spec == Init /\ [][Next]_vars

\* The buffer changes alone: the load-time decode, the editors, and the templates
\* of the registry.  React runs the first render and every scheduled effect.
NextPreview ==
    \/ Mount
    \/ FlushPassiveEffects
    \/ \E field \in {"html", "css", "js"}, value \in EditTexts : onChange(field, value)
    \/ \E templateName \in TemplateKeys, confirmed \in BOOLEAN :
           loadTemplate(templateName, confirmed)

\* FlushPassiveEffects is enabled exactly when App is mounted with an effect pending,
\* and it always changes `passive`.
FlushEnabled == mounted /\ passive # {}

\* WF_vars(FlushPassiveEffects), with its ENABLED written out as FlushEnabled.
FlushFairness == []<>(~FlushEnabled) \/ []<><<FlushPassiveEffects>>_vars

SpecPreview ==
    /\ Init
    /\ [][NextPreview]_vars
    /\ WF_vars(Mount)
    /\ FlushFairness

\* The load of a page for every query string of LinkQueries.
InitLink == \E q \in LinkQueries : FreshPage(q)

NextLink ==
    \/ Mount
    \/ FlushPassiveEffects

SpecLink == InitLink /\ [][NextLink]_vars

\* A mounted page whose buffers were edited to a triple of ShareTriples, the Share
\* Code button, and the load of the page the link leads to.
InitShare ==
    \E t \in ShareTriples :
        /\ search = << >>
        /\ mounted = TRUE
        /\ htmlCode = Str(t.html)
        /\ cssCode = Str(t.css)
        /\ jsCode = Str(t.js)
        /\ srcDoc = Compose(Str(t.html), Str(t.css), Str(t.js))
        /\ passive = {}
        /\ shareUrlRef = << >>
        /\ dialog = NoDialog
        /\ uncaught = FALSE
        /\ console = {}
        /\ hostAccess = "none"
        /\ lastEvent = NoEvent
        /\ shared = NoShare

NextShare ==
    \/ \E clipboard \in {"resolved", "rejected", "absent"} : ShareClick(clipboard)
    \/ OpenLink
    \/ Mount
    \/ FlushPassiveEffects

SpecShare == InitShare /\ [][NextShare]_vars

(***************************************************************************)
(* Properties.                                                             *)
(***************************************************************************)
Fields == {"html", "css", "js"}

\* What urlParams.get gives for the parameter of a buffer on this page.
UrlValue(field) == Get(URLSearchParams(search), ParamName(field))

\* The load-time effect has run on this page.
Decoded == mounted /\ "url" \notin passive

\* C1: a link made from buffers in the single-byte range, empty buffers included,
\* restores exactly those buffers on the page it opens.
RoundTrip == (shared # NoShare /\ Decoded) => Buffers = shared

\* The round trip of three non-empty buffers.
RoundTripOfNonEmptyBuffers ==
    (shared # NoShare /\ Decoded /\ \A f \in Fields : shared[f] # Str(<< >>))
        => Buffers = shared

RoundTripOfNonEmptyBuffersReached ==
    /\ shared # NoShare
    /\ Decoded
    /\ shared.html = Str(<<251, 251>>)
    /\ shared.css = Str(<<251, 255>>)
    /\ Buffers = shared

\* C2: when the decoding of a parameter that is present throws, the three buffers
\* hold the default template after the load-time decode, whatever was decoded
\* before the failure.
AtomicDecodeFailure ==
    (/\ lastEvent.op = "urlEffect"
     /\ \E f \in Fields : UrlValue(f) # Null /\ DecodeParam(UrlValue(f)).threw)
        => Buffers = TEMPLATES.default

\* html decoded, then css threw: the buffers are the default template.
AtomicDecodeFailureReached ==
    /\ lastEvent.op = "urlEffect"
    /\ UrlValue("html") # Null
    /\ ~DecodeParam(UrlValue("html")).threw
    /\ Str(DecodeParam(UrlValue("html")).val) # TEMPLATES.default.html
    /\ UrlValue("css") # Null
    /\ DecodeParam(UrlValue("css")).threw
    /\ lastEvent.attempted = {"html", "css"}
    /\ Buffers = TEMPLATES.default

\* C3: after the load-time decode the buffer of every absent parameter holds its
\* default, and with no parameter of the three nothing is decoded and the three
\* buffers hold the default template.
AbsentParametersKeepDefault ==
    lastEvent.op = "urlEffect" =>
        /\ \A f \in Fields : UrlValue(f) = Null => Buffers[f] = TEMPLATES.default[f]
        /\ (\A f \in Fields : UrlValue(f) = Null)
               => (lastEvent.attempted = {} /\ ~lastEvent.threw)

\* css alone was in the link and was decoded; html and js hold their defaults.
AbsentParametersKeepDefaultReached ==
    /\ lastEvent.op = "urlEffect"
    /\ UrlValue("html") = Null
    /\ UrlValue("js") = Null
    /\ UrlValue("css") # Null
    /\ cssCode = Str(<<97>>)
    /\ htmlCode = TEMPLATES.default.html
    /\ jsCode = TEMPLATES.default.js

\* C4: loadTemplate of a template of the registry asks for confirmation; declined,
\* the three buffers are as before; accepted, they are the three texts of the
\* template; never one or two of them.
TemplateAtomicity ==
    (lastEvent.op = "loadTemplate" /\ lastEvent.name \in TemplateKeys) =>
        /\ lastEvent.asked
        /\ Buffers = IF lastEvent.accepted THEN TEMPLATES[lastEvent.name]
                     ELSE lastEvent.before

\* simpleCard was accepted over buffers none of which it shares.
TemplateAtomicityReached ==
    /\ lastEvent.op = "loadTemplate"
    /\ lastEvent.name = "simpleCard"
    /\ lastEvent.accepted
    /\ \A f \in Fields : lastEvent.before[f] # TEMPLATES.simpleCard[f]
    /\ Buffers = TEMPLATES.simpleCard

\* C5: loadTemplate of a name that is no key of the registry changes no buffer, asks
\* for no confirmation and logs a warning.
UnknownTemplateIsReported ==
    (lastEvent.op = "loadTemplate" /\ lastEvent.name \notin TemplateKeys) =>
        /\ Buffers = lastEvent.before
        /\ ~lastEvent.asked
        /\ lastEvent.warned
        /\ "warn" \in console

\* The part of C5 about the buffers alone.
UnknownTemplateChangesNothing ==
    (lastEvent.op = "loadTemplate" /\ lastEvent.name \notin TemplateKeys) =>
        Buffers = lastEvent.before

\* C6: whenever the iframe is rendered, its srcDoc is the document composed from
\* the current three buffers.
RecompositionPrecedesRendering ==
    mounted => srcDoc = Compose(htmlCode, cssCode, jsCode)

\* C7: the script of the composed document never gets at the storage, cookies or
\* DOM of the hosting page.
SandboxIsolation == hostAccess # "granted"

\* C8: a Share Code click never ends in an exception, and it shows the URL.
EncodingNeverFails ==
    lastEvent.op = "share" => (~lastEvent.threw /\ ~uncaught /\ dialog.kind # "none")

\* The part of C8 for buffers in the single-byte range.
EncodingOfSingleByteBuffers ==
    (/\ lastEvent.op = "share"
     /\ \A f \in Fields : \A i \in 1..Len(Chars(Buffers[f])) : Chars(Buffers[f])[i] <= 255)
        => (~uncaught /\ dialog.kind # "none" /\ shareUrlRef = dialog.url)

\* "<style>", "</style>", "<body>", "<script>", "</script>"
StyleOpen == <<60, 115, 116, 121, 108, 101, 62>>

StyleClose == <<60, 47, 115, 116, 121, 108, 101, 62>>

BodyOpen == <<60, 98, 111, 100, 121, 62>>

ScriptOpen == <<60, 115, 99, 114, 105, 112, 116, 62>>

ScriptClose == <<60, 47, 115, 99, 114, 105, 112, 116, 62>>

\* Whether text stands in doc at place i.
StandsAt(doc, text, i) ==
    i >= 1 /\ i + Len(text) - 1 <= Len(doc) /\ SubSeq(doc, i, i + Len(text) - 1) = text

\* Whether doc holds css between the first "<style>" and a "</style>", then html
\* inside the "<body>" that follows, then js between "<script>" and "</script>".
InOrder(doc, html, css, js) ==
    LET style  == IndexOf(doc, StyleOpen, 1)
        cssAt  == style + Len(StyleOpen)
        body   == IndexOf(doc, BodyOpen, cssAt + Len(css) + Len(StyleClose))
        htmlAt == IndexOf(doc, html, body + Len(BodyOpen))
        script == IndexOf(doc, ScriptOpen, htmlAt + Len(html))
        jsAt   == script + Len(ScriptOpen)
    IN  /\ style > 0
        /\ StandsAt(doc, css, cssAt)
        /\ StandsAt(doc, StyleClose, cssAt + Len(css))
        /\ body > 0
        /\ htmlAt > 0
        /\ \A i \in (body + Len(BodyOpen))..(htmlAt - 1) : IsAsciiWhitespace(doc[i])
        /\ script > 0
        /\ \A i \in (htmlAt + Len(html))..(script - 1) : IsAsciiWhitespace(doc[i])
        /\ StandsAt(doc, js, jsAt)
        /\ StandsAt(doc, ScriptClose, jsAt + Len(js))

\* C9: the document composed of three texts holds each of them as given, the style
\* before the markup and the script after it.
ComposerOrdering ==
    (mounted /\ passive = {})
        => InOrder(DocText(srcDoc), Chars(htmlCode), Chars(cssCode), Chars(jsCode))

\* The document of a decoded link whose three texts differ.
ComposerOrderingReached ==
    /\ mounted
    /\ passive = {}
    /\ shared # NoShare
    /\ htmlCode = Str(<<97, 251>>)
    /\ cssCode = Str(<<251, 255>>)
    /\ jsCode = Str(<<251, 255>>)
    /\ InOrder(DocText(srcDoc), Chars(htmlCode), Chars(cssCode), Chars(jsCode))

\* The preview shows the document of the current buffers.
Synced == srcDoc = Compose(htmlCode, cssCode, jsCode)

\* C10: with no effect pending the preview is the document of the buffers; it stays
\* so while no buffer changes; the srcDoc effect changes no buffer; and a pending
\* effect leads to a state with none pending and the preview in step.
PreviewConvergence ==
    /\ []((mounted /\ passive = {}) => Synced)
    /\ [][(Synced /\ UNCHANGED <<htmlCode, cssCode, jsCode>>) => Synced']_vars
    /\ [][(passive = {"srcDoc"} /\ FlushPassiveEffects)
             => UNCHANGED <<htmlCode, cssCode, jsCode>>]_vars
    /\ (passive # {}) ~> (passive = {} /\ Synced)

\* A link was decoded, an editor changed css, a template was accepted, and the
\* preview has caught up.
PreviewConvergenceReached ==
    /\ search # << >>
    /\ lastEvent.op = "loadTemplate"
    /\ lastEvent.accepted
    /\ lastEvent.name = "flexboxExample"
    /\ lastEvent.before.html = Str(<<97>>)
    /\ lastEvent.before.css = Str(<<97>>)
    /\ passive = {}
    /\ Synced
=============================================================================
